---- MODULE Spec2Model ----
(***************************************************************************)
(* Model of MotorController (canopen_controller.py): the session           *)
(* constructor, disconnectNetwork, enableOperation and the telemetry       *)
(* stubs, over an abstract CANopen transport (canopen.Network).            *)
(*                                                                         *)
(* Time is counted in milliseconds: sleep(0.001) is one tick and the       *)
(* 15 s deadline of enableOperation is 15000 ticks.                        *)
(*                                                                         *)
(* The registry is the mapping self._network (canopen.Network.nodes).      *)
(* The controller never adds a node to it; a client can only populate it   *)
(* through the network object (add_node), which AddNode models.            *)
(*                                                                         *)
(* Transport calls made by enableOperation are assumed to complete (no bus *)
(* error while a state is written or read); the teardown steps may fail.   *)
(***************************************************************************)
EXTENDS Integers, Sequences, FiniteSets, TLC

\* ---------------------------------------------------------------- bounds
MaxLen == 2
MaxFine == 1
MaxStart == 50

\* ------------------------------------------------------ program constants
TimeoutSeconds == 15
TicksPerSecond == 1000
PollInterval == 1
ScanSettle == 50
MinNodeId == 0
MaxNodeId == 127

Deadline == TimeoutSeconds * TicksPerSecond

\* ------------------------------------------------------- values and inputs
PyInt(n) == [type |-> "int", val |-> n]
PyStr == [type |-> "str", val |-> 0]

\* node ids of the devices on the bus
BusNodes == {2, 3}

\* sample of node id arguments: present, out of range on both sides, non-integer
IdSample == {PyInt(2), PyInt(3), PyInt(128), PyInt(-1), PyStr}

\* enableOperation makes no range check: an integer that is not registered
\* (3, while only 2 is) stands for every integer it rejects
EoIdSample == {PyInt(2), PyInt(3), PyStr}

RECURSIVE ListsUpTo(_, _)
ListsUpTo(n, ids) == IF n = 0 THEN {<<>>}
                     ELSE LET S == ListsUpTo(n - 1, ids)
                          IN S \cup {Append(s, x) : s \in {t \in S : Len(t) = n - 1}, x \in ids}

Lists == ListsUpTo(MaxLen, IdSample)
EoLists == ListsUpTo(MaxLen, EoIdSample)

\* node_ids=None, or a list of expected ids
NodeIdsArgs == {[given |-> FALSE, items |-> <<>>]} \cup {[given |-> TRUE, items |-> l] : l \in Lists}

OpStates == {"SWITCH ON DISABLED", "OPERATION ENABLED", "FAULT"}
TeardownSteps == {"nmt", "guard", "sync", "disconnect"}

Range(s) == {s[j] : j \in 1..Len(s)}

\* a transport call <<kind, node id>> (node id 0: the whole network) is logged
\* once, in the order of its first occurrence
Log(c, e) == IF e \in Range(c) THEN c ELSE Append(c, e)

IsInt(id) == id.type = "int"

\* ------------------------------------------------------------------ state
VARIABLES
  pc,         \* position of the single client thread
  node_ids,   \* self._node_ids: the constructor's expected-node argument
  connected,  \* the transport (self._network bus) is open
  nodes,      \* self._network: registered node ids, in insertion order
  scanned,    \* self._network.scanner.nodes
  ctorExc,    \* exception raised inside the constructor's try block
  op,         \* the current / last API call as its caller sees it
  calls,      \* transport calls made by the current / last API call
  idx,        \* position in the id list being processed
  cmdIdx,     \* list positions whose node was commanded in this call
  pollIdx,    \* list positions whose node state was read in this call
  okIdx,      \* list positions whose node was read as OPERATION ENABLED
  cmdAt,      \* clock when the current node was commanded
  devState,   \* operational state of each device (moved by the device)
  oeSince,    \* since when a device has been OPERATION ENABLED (-1: it is not)
  lastRead,   \* last value node.state returned for the node being waited on
  now,        \* time.time(), in ticks
  timeout,    \* enableOperation's local 'timeout'
  lastCheck   \* clock at the previous deadline check of the current node

vars == <<pc, node_ids, connected, nodes, scanned, ctorExc, op, calls, idx,
          cmdIdx, pollIdx, okIdx, cmdAt, devState, oeSince, lastRead, now, timeout, lastCheck>>

NoRead == "unread"

NewOp(name, ids) == [name |-> name, ids |-> ids, status |-> "running",
                     err |-> "none", k |-> 0, at |-> 0]

Init ==
  /\ pc = "c_connect"
  /\ node_ids \in NodeIdsArgs
  /\ connected = FALSE
  /\ nodes = <<>>
  /\ scanned = {}
  /\ ctorExc = "none"
  /\ op = NewOp("__init__", node_ids.items)
  /\ calls = <<>>
  /\ idx = 1
  /\ cmdIdx = {}
  /\ pollIdx = {}
  /\ okIdx = {}
  /\ cmdAt = 0
  /\ devState = [n \in BusNodes |-> "SWITCH ON DISABLED"]
  /\ oeSince = [n \in BusNodes |-> -1]
  /\ lastRead = NoRead
  /\ now = 0
  /\ timeout = 0
  /\ lastCheck = 0

devVars == <<devState, oeSince>>
eoVars == <<idx, cmdIdx, pollIdx, okIdx, cmdAt, lastRead, timeout, lastCheck>>

\* ------------------------------------------------------------ constructor
\* line 64: self._network.connect(...); an exception goes to the except clause
CtorConnect ==
  /\ pc = "c_connect"
  /\ calls' = Log(calls, <<"connect", 0>>)
  /\ \E ok \in BOOLEAN :
       IF ok THEN /\ connected' = TRUE
                  /\ pc' = "c_check"
                  /\ ctorExc' = ctorExc
             ELSE /\ connected' = FALSE
                  /\ pc' = "c_except"
                  /\ ctorExc' = "ConnectError"
  /\ UNCHANGED <<node_ids, nodes, scanned, op, now, devVars, eoVars>>

\* line 65: self._network.check()
CtorCheck ==
  /\ pc = "c_check"
  /\ calls' = Log(calls, <<"check", 0>>)
  /\ \E ok \in BOOLEAN :
       IF ok THEN pc' = "c_search" /\ ctorExc' = ctorExc
             ELSE pc' = "c_except" /\ ctorExc' = "CheckError"
  /\ UNCHANGED <<node_ids, connected, nodes, scanned, op, now, devVars, eoVars>>

\* lines 69-72: scanner.search(), then the settle sleep; the nodes that
\* answered are in scanner.nodes, the network mapping is not touched
CtorSearch ==
  /\ pc = "c_search"
  /\ calls' = Log(calls, <<"search", 0>>)
  /\ \E ok \in BOOLEAN :
       IF ok THEN /\ \E found \in SUBSET BusNodes : scanned' = found
                  /\ now' = now + ScanSettle
                  /\ pc' = "c_validate"
                  /\ ctorExc' = ctorExc
             ELSE /\ scanned' = scanned
                  /\ now' = now
                  /\ pc' = "c_except"
                  /\ ctorExc' = "ScanError"
  /\ UNCHANGED <<node_ids, connected, nodes, op, devVars, eoVars>>

\* the range test of line 80 left out
ValidateIdNoRange(id, found) ==
  IF ~IsInt(id) THEN "TypeError"
  ELSE IF ~(id.val \in found) THEN "NotAvailable"
  ELSE "none"

\* lines 77-86: the checks made on one expected id
ValidateId(id, found) ==
  IF ~IsInt(id) THEN "TypeError"
  ELSE IF id.val < MinNodeId \/ id.val > MaxNodeId THEN "RangeError"
  ELSE IF ~(id.val \in found) THEN "NotAvailable"
  ELSE "none"

\* lines 74-86: one iteration of 'for id in node_ids'
CtorValidate ==
  /\ pc = "c_validate"
  /\ IF ~node_ids.given \/ idx > Len(node_ids.items)
       THEN /\ pc' = "c_finally"
            /\ UNCHANGED <<ctorExc, idx>>
       ELSE LET e == ValidateId(node_ids.items[idx], scanned)
            IN IF e = "none"
                 THEN /\ idx' = idx + 1
                      /\ UNCHANGED <<pc, ctorExc>>
                 ELSE /\ ctorExc' = e
                      /\ pc' = "c_except"
                      /\ idx' = idx
  /\ UNCHANGED <<node_ids, connected, nodes, scanned, op, calls, now, devVars,
                 cmdIdx, pollIdx, okIdx, cmdAt, lastRead, timeout, lastCheck>>

\* lines 88-92: 'except Exception as e' logs the exception and goes on
CtorExcept ==
  /\ pc = "c_except"
  /\ pc' = "c_finally"
  /\ UNCHANGED <<node_ids, connected, nodes, scanned, ctorExc, op, calls, now,
                 devVars, eoVars>>

\* the network-level steps made even when no node is registered
TeardownAlways(reg, c, conn, fail, closed) ==
  [calls |-> Append(Append(c, <<"sync", 0>>), <<"disconnect", 0>>),
   connected |-> FALSE, status |-> "returned", err |-> "none"]

\* lines 96-103 and 112-119: the teardown block.  reg: the registry, c: the
\* call log, conn: transport open, fail: the step that raises ("none": no step
\* does), closed: whether a failing disconnect still closed the bus.  Every
\* statement of the block, 'return' included, is in the body of the for loop.
\* A frame cannot be sent on a closed bus, so there the NMT write raises.
Teardown(reg, c, conn, fail, closed) ==
  IF reg = <<>>
    THEN [calls |-> c, connected |-> conn, status |-> "skipped", err |-> "none"]
    ELSE LET n == reg[1]
             f == IF conn THEN fail ELSE "nmt"
             c1 == Append(c, <<"nmt", n>>)
             c2 == Append(c1, <<"guard", n>>)
             c3 == Append(c2, <<"sync", 0>>)
             c4 == Append(c3, <<"disconnect", 0>>)
         IN CASE f = "nmt" -> [calls |-> c1, connected |-> conn, status |-> "raised", err |-> "nmt"]
              [] f = "guard" -> [calls |-> c2, connected |-> conn, status |-> "raised", err |-> "guard"]
              [] f = "sync" -> [calls |-> c3, connected |-> conn, status |-> "raised", err |-> "sync"]
              [] f = "disconnect" -> [calls |-> c4, connected |-> conn /\ ~closed, status |-> "raised", err |-> "disconnect"]
              [] OTHER -> [calls |-> c4, connected |-> FALSE, status |-> "returned", err |-> "none"]

\* lines 93-105: the finally block, then the end of __init__.  An exception of
\* a teardown step leaves the constructor; otherwise the constructor returns.
CtorFinally ==
  /\ pc = "c_finally"
  /\ \E fail \in {"none"} \cup TeardownSteps, closed \in BOOLEAN :
       LET t == Teardown(nodes, calls, connected, fail, closed)
       IN /\ calls' = t.calls
          /\ connected' = t.connected
          /\ op' = IF t.status = "raised"
                     THEN [op EXCEPT !.status = "raised", !.err = t.err]
                     ELSE [op EXCEPT !.status = "returned"]
  /\ pc' = "ready"
  /\ idx' = 1
  /\ UNCHANGED <<node_ids, nodes, scanned, ctorExc, now, devVars,
                 cmdIdx, pollIdx, okIdx, cmdAt, lastRead, timeout, lastCheck>>

\* ------------------------------------------------------ disconnectNetwork
\* lines 107-119
DisconnectNetwork ==
  /\ pc = "ready"
  /\ \E fail \in {"none"} \cup TeardownSteps, closed \in BOOLEAN :
       LET t == Teardown(nodes, <<>>, connected, fail, closed)
       IN /\ calls' = t.calls
          /\ connected' = t.connected
          /\ op' = IF t.status = "raised"
                     THEN [NewOp("disconnectNetwork", <<>>) EXCEPT !.status = "raised", !.err = t.err]
                     ELSE [NewOp("disconnectNetwork", <<>>) EXCEPT !.status = "returned"]
  /\ UNCHANGED <<pc, node_ids, nodes, scanned, ctorExc, now, devVars, eoVars>>

\* ------------------------------------------------ registry (canopen.Network)
\* self._network.add_node(n): the only way a node enters the mapping
AddNode ==
  /\ pc = "ready"
  /\ \E n \in BusNodes :
       /\ n \notin Range(nodes)
       /\ nodes' = Append(nodes, n)
  /\ UNCHANGED <<pc, node_ids, connected, scanned, ctorExc, op, calls, now,
                 devVars, eoVars>>

\* --------------------------------------------------------- enableOperation
\* lines 144-145: the argument is not a list
EnableOperationNotList ==
  /\ pc = "ready"
  /\ op' = [NewOp("enableOperation", <<>>) EXCEPT !.status = "raised", !.err = "NotAList"]
  /\ calls' = <<>>
  /\ idx' = 1
  /\ cmdIdx' = {}
  /\ pollIdx' = {}
  /\ okIdx' = {}
  /\ cmdAt' = 0
  /\ lastRead' = NoRead
  /\ timeout' = 0
  /\ lastCheck' = 0
  /\ UNCHANGED <<pc, node_ids, connected, nodes, scanned, ctorExc, now, devVars>>

\* lines 135-147: the call with a list; calls are followed that start while
\* the clock is at most MaxStart
EnableOperation ==
  /\ pc = "ready"
  /\ now <= MaxStart
  /\ \E l \in EoLists : op' = NewOp("enableOperation", l)
  /\ pc' = "eo_loop"
  /\ calls' = <<>>
  /\ idx' = 1
  /\ cmdIdx' = {}
  /\ pollIdx' = {}
  /\ okIdx' = {}
  /\ cmdAt' = 0
  /\ lastRead' = NoRead
  /\ timeout' = 0
  /\ lastCheck' = 0
  /\ UNCHANGED <<node_ids, connected, nodes, scanned, ctorExc, now, devVars>>

\* the membership test of line 152 left out
CheckEnableIdNoMembership(id, reg) ==
  IF ~IsInt(id) THEN "NotInt" ELSE "none"

\* lines 149-153: the checks made on one id of the list
CheckEnableId(id, reg) ==
  IF ~IsInt(id) THEN "NotInt"
  ELSE IF ~(id.val \in Range(reg)) THEN "NotAvailable"
  ELSE "none"

\* the deadline taken once, for the first node of the call, and kept
CallDeadline(t, old) == IF old = 0 THEN t + Deadline ELSE old

\* line 156: timeout = time.time() + 15, taken anew for each node (old: the
\* value the local had)
NodeDeadline(t, old) == t + Deadline

\* lines 147-157: the head of one iteration of 'for id in node_ids': the
\* checks, the deadline, the command; after the last id the call returns
EoNext ==
  /\ pc = "eo_loop"
  /\ IF idx > Len(op.ids)
       THEN /\ op' = [op EXCEPT !.status = "returned"]
            /\ pc' = "ready"
            /\ UNCHANGED <<calls, cmdIdx, cmdAt, timeout, lastCheck, lastRead>>
       ELSE LET id == op.ids[idx]
                e == CheckEnableId(id, nodes)
            IN IF e # "none"
                 THEN /\ op' = [op EXCEPT !.status = "raised", !.err = e, !.k = idx, !.at = now]
                      /\ pc' = "ready"
                      /\ UNCHANGED <<calls, cmdIdx, cmdAt, timeout, lastCheck, lastRead>>
                 ELSE /\ timeout' = NodeDeadline(now, timeout)
                      /\ cmdAt' = now
                      /\ lastCheck' = now
                      /\ lastRead' = NoRead
                      /\ calls' = Log(calls, <<"state_write", id.val>>)
                      /\ cmdIdx' = cmdIdx \cup {idx}
                      /\ pc' = "eo_wait"
                      /\ op' = op
  /\ UNCHANGED <<node_ids, connected, nodes, scanned, ctorExc, now, devVars,
                 idx, pollIdx, okIdx>>

\* no wait at all
TargetReachedAlways(s) == TRUE

\* the loop left on any state but the initial one
TargetReachedLoose(s) == s # "SWITCH ON DISABLED"

\* line 158: the while condition is false, the wait is over
TargetReached(s) == s = "OPERATION ENABLED"

\* the deadline test with >= for >
DeadlineReached(t, limit) == t >= limit

\* the deadline test never true
DeadlineNever(t, limit) == FALSE

\* line 159: time.time() > timeout
DeadlinePassed(t, limit) == t > limit

\* lines 158-160: one evaluation of the while condition (a read of node.state)
\* and, when the state is not the target, of the deadline test
EoPoll ==
  /\ pc = "eo_wait"
  /\ LET n == op.ids[idx].val
         s == devState[n]
     IN /\ lastRead' = s
        /\ calls' = Log(calls, <<"state_read", n>>)
        /\ pollIdx' = pollIdx \cup {idx}
        /\ okIdx' = IF s = "OPERATION ENABLED" THEN okIdx \cup {idx} ELSE okIdx
        /\ IF TargetReached(s)
             THEN /\ pc' = "eo_sleep"
                  /\ UNCHANGED <<op, lastCheck>>
             ELSE IF DeadlinePassed(now, timeout)
                    THEN /\ op' = [op EXCEPT !.status = "raised", !.err = "Timeout",
                                             !.k = idx, !.at = now]
                         /\ pc' = "ready"
                         /\ lastCheck' = lastCheck
                    ELSE /\ lastCheck' = now
                         /\ UNCHANGED <<op, pc>>
  /\ UNCHANGED <<node_ids, connected, nodes, scanned, ctorExc, now, devVars,
                 idx, cmdIdx, cmdAt, timeout>>

\* line 161: time.sleep(0.001), once per node, after its wait loop
EoSleep ==
  /\ pc = "eo_sleep"
  /\ now' = now + PollInterval
  /\ idx' = idx + 1
  /\ pc' = "eo_loop"
  /\ UNCHANGED <<node_ids, connected, nodes, scanned, ctorExc, op, calls, devVars,
                 cmdIdx, pollIdx, okIdx, cmdAt, lastRead, timeout, lastCheck>>

\* ------------------------------------------------------------ environment
\* durations by which the clock is seen to advance between two steps
TickSteps == {PollInterval, 2 * PollInterval, Deadline}

\* time.time() advances while enableOperation waits.  The clock is followed up
\* to the first instant after the deadline, in fine steps only next to the
\* instants the code compares it with.
Tick ==
  /\ pc = "eo_wait"
  /\ now <= timeout
  /\ \E d \in TickSteps :
       /\ d < Deadline => ((now + Deadline - timeout) % Deadline) < MaxFine
       /\ now' = now + d
  /\ UNCHANGED <<pc, node_ids, connected, nodes, scanned, ctorExc, op, calls,
                 devVars, eoVars>>

\* a registered device changes its operational state on its own.  Only
\* enableOperation observes it: the device followed is the one whose state
\* the call reads next.
DeviceStep ==
  /\ pc \in {"eo_loop", "eo_wait"}
  /\ idx <= Len(op.ids)
  /\ \E n \in Range(nodes), s \in OpStates :
       /\ op.ids[idx] = PyInt(n)
       /\ s # devState[n]
       /\ devState' = [devState EXCEPT ![n] = s]
       /\ oeSince' = [oeSince EXCEPT ![n] = IF s = "OPERATION ENABLED" THEN now ELSE -1]
  /\ UNCHANGED <<pc, node_ids, connected, nodes, scanned, ctorExc, op, calls, now,
                 eoVars>>

\* ------------------------------------------------- command / telemetry stubs
\* the body of each accessor is 'pass': it returns None and does nothing else
Stub(name) ==
  /\ pc = "ready"
  /\ \E id \in IdSample :
       op' = [NewOp(name, <<id>>) EXCEPT !.status = "returned"]
  /\ calls' = <<>>
  /\ UNCHANGED <<pc, node_ids, connected, nodes, scanned, ctorExc, now, devVars,
                 eoVars>>

\* lines 163-177
GetOperationStatus == Stub("getOperationStatus")
\* lines 179-193
GetNMTStatus == Stub("getNMTStatus")
\* lines 195-209
GetVelocity == Stub("getVelocity")
\* lines 211-225
GetEncoder == Stub("getEncoder")
\* lines 227-238
SetTargetVelocity == Stub("setTargetVelocity")

\* ---------------------------------------------------------- specifications
\* the session: construction, teardown, registry, accessors
Next == CtorConnect \/ CtorCheck \/ CtorSearch \/ CtorValidate \/ CtorExcept
          \/ CtorFinally \/ DisconnectNetwork \/ AddNode
          \/ GetOperationStatus \/ GetNMTStatus \/ GetVelocity \/ GetEncoder
          \/ SetTargetVelocity

Spec == Init /\ [][Next]_vars

\* enableOperation on a session that was constructed without an expected set:
\* the state in which MotorController() returns when connect, check and scan
\* succeed and every bus node answers the scan
InitEO ==
  /\ pc = "ready"
  /\ node_ids = [given |-> FALSE, items |-> <<>>]
  /\ connected = TRUE
  /\ nodes = <<>>
  /\ scanned = BusNodes
  /\ ctorExc = "none"
  /\ op = [NewOp("__init__", <<>>) EXCEPT !.status = "returned"]
  /\ calls = << <<"connect", 0>>, <<"check", 0>>, <<"search", 0>> >>
  /\ idx = 1
  /\ cmdIdx = {}
  /\ pollIdx = {}
  /\ okIdx = {}
  /\ cmdAt = 0
  /\ devState = [n \in BusNodes |-> "SWITCH ON DISABLED"]
  /\ oeSince = [n \in BusNodes |-> -1]
  /\ lastRead = NoRead
  /\ now = ScanSettle
  /\ timeout = 0
  /\ lastCheck = 0

NextEO == AddNode \/ EnableOperationNotList \/ EnableOperation \/ EoNext \/ EoPoll
            \/ EoSleep \/ Tick \/ DeviceStep

SpecEO == InitEO /\ [][NextEO]_vars

\* the client thread keeps running and the clock keeps advancing
LiveSpecEO == SpecEO /\ WF_vars(EoNext) /\ WF_vars(EoPoll) /\ WF_vars(EoSleep)
                     /\ WF_vars(Tick)

\* ------------------------------------------------------------------ claims
CtorExited == op.name = "__init__" /\ op.status # "running"
PostConnectFailures == {"CheckError", "ScanError", "TypeError", "RangeError", "NotAvailable"}
InvalidIdErrors == {"TypeError", "RangeError", "NotInt"}
InvalidId(id) == ~IsInt(id) \/ id.val < MinNodeId \/ id.val > MaxNodeId

\* C1: whenever connect, the liveness check, the scan or the validation of the
\* expected nodes fails, the constructor reports an error to its caller: it
\* returns normally only when nothing failed
InitFailureReported ==
  (op.name = "__init__" /\ op.status = "returned") => ctorExc = "none"

\* C2: when initialization fails after the connect succeeded, the transport is
\* disconnected by the time the constructor exits
FailedInitDisconnected ==
  (CtorExited /\ ctorExc \in PostConnectFailures) => ~connected

\* discovery (scan and validation) is over
DiscoveryDone ==
  /\ pc \in {"c_except", "c_finally"}
  /\ ctorExc \notin {"ConnectError", "CheckError", "ScanError"}
AbsentId(id) == ~(IsInt(id) /\ id.val \in scanned)
AbsentAt == {j \in 1..Len(node_ids.items) : AbsentId(node_ids.items[j])}
SomeExpectedAbsent == node_ids.given /\ AbsentAt # {}
FirstAbsent == CHOOSE j \in AbsentAt : \A i \in AbsentAt : j <= i

\* C3 as stated: when an expected id is absent from the nodes that answered the
\* scan, discovery fails with a node-not-found error and the registry is empty
DiscoveryAllOrNothing ==
  (DiscoveryDone /\ SomeExpectedAbsent) => (ctorExc = "NotAvailable" /\ nodes = <<>>)

\* C3 as amended: when an expected id is absent from the nodes that answered the
\* scan, discovery fails and the registry is empty; the error is node-not-found
\* exactly when the first absent id of the list is an integer in [0,127], and an
\* invalid-node-id error otherwise
DiscoveryFailsOnAbsentId ==
  (DiscoveryDone /\ SomeExpectedAbsent) =>
     /\ nodes = <<>>
     /\ ctorExc \in {"TypeError", "RangeError", "NotAvailable"}
     /\ (ctorExc = "NotAvailable") <=> ~InvalidId(node_ids.items[FirstAbsent])

\* an expected list of which one node answered the scan and a valid one did not
PartialDiscoveryRejected ==
  /\ pc = "c_except"
  /\ ctorExc = "NotAvailable"
  /\ scanned # {}
  /\ \E j \in 1..Len(node_ids.items) : ~AbsentId(node_ids.items[j])

\* C4: after a successful discovery every node id that answered the scan has a
\* record in the registry (so that enableOperation accepts it)
ScannedNodesRegistered ==
  (op.name = "__init__" /\ op.status = "returned" /\ ctorExc = "none")
     => scanned \subseteq Range(nodes)

\* C5: an operation that is given a node id that is not an integer in [0,127]
\* fails with an invalid-node-id error, before it makes any transport call
InvalidIdRejectedBeforeTransport ==
  (/\ op.status # "running"
   /\ op.name # "disconnectNetwork"
   /\ op.name = "__init__" => node_ids.given
   /\ \E j \in 1..Len(op.ids) : InvalidId(op.ids[j]))
     => (op.status = "raised" /\ op.err \in InvalidIdErrors /\ calls = <<>>)

TimeoutCase == op.name = "enableOperation" /\ op.status = "raised" /\ op.err = "Timeout"

Prompt(n) == oeSince[n] # -1 /\ oeSince[n] <= (timeout - Deadline) + PollInterval

\* C7: a registered node that reaches OPERATION ENABLED within one poll interval
\* of the command is not timed out, and when the wait for a node ends without
\* error the state last read from it is OPERATION ENABLED
PromptTransitionSucceeds ==
  /\ TimeoutCase => ~Prompt(op.ids[op.k].val)
  /\ pc = "eo_sleep" => lastRead = "OPERATION ENABLED"
  /\ (op.name = "enableOperation" /\ op.status = "returned" /\ Len(op.ids) > 0)
        => lastRead = "OPERATION ENABLED"

\* a call that returned after its last node became OPERATION ENABLED exactly one
\* poll interval after the command
PromptTransitionReturned ==
  /\ op.name = "enableOperation"
  /\ op.status = "returned"
  /\ Len(op.ids) > 0
  /\ oeSince[op.ids[Len(op.ids)].val] = (timeout - Deadline) + PollInterval
  /\ lastRead = "OPERATION ENABLED"

\* C8: enableOperation never blocks indefinitely: a call that was started
\* eventually returns or raises
EnableOperationTerminates == (pc # "ready") ~> (pc = "ready")

\* a call over two nodes that ended on the timeout of its second node, which
\* never left its initial state
SecondNodeTimedOut ==
  /\ pc = "ready"
  /\ TimeoutCase
  /\ op.k = 2
  /\ devState[op.ids[2].val] = "SWITCH ON DISABLED"
  /\ oeSince[op.ids[2].val] = -1

\* C9: the first failing id aborts the batch: the call raises, no node after
\* the failing id has been commanded or polled, a rejected id (not an integer,
\* not in the session) is never commanded itself, and a call returns only when
\* every id was accepted and commanded
FirstFailureAbortsBatch ==
  /\ op.name = "enableOperation" =>
        \A j \in cmdIdx \cup pollIdx : IsInt(op.ids[j]) /\ op.ids[j].val \in Range(nodes)
  /\ (op.name = "enableOperation" /\ op.status = "raised" /\ op.err # "NotAList") =>
        /\ pc = "ready"
        /\ op.k \in 1..Len(op.ids)
        /\ \A j \in cmdIdx \cup pollIdx : j <= op.k
        /\ op.err \in {"NotInt", "NotAvailable"} => op.k \notin (cmdIdx \cup pollIdx)
        /\ op.err = "Timeout" => op.k \in (cmdIdx \cap pollIdx)
  /\ (op.name = "enableOperation" /\ op.status = "returned") =>
        /\ cmdIdx = 1..Len(op.ids)
        /\ \A j \in 1..Len(op.ids) : IsInt(op.ids[j]) /\ op.ids[j].val \in Range(nodes)

\* the first node of a list timed out and the registered node after it was left
\* alone
BatchAbortedBeforeRegisteredNode ==
  /\ TimeoutCase
  /\ op.k = 1
  /\ Len(op.ids) = 2
  /\ IsInt(op.ids[2])
  /\ op.ids[2].val \in Range(nodes)
  /\ cmdIdx = {1}
  /\ pollIdx = {1}

\* C10: after disconnectNetwork returns the transport is disconnected, whatever
\* the registry holds
DisconnectNetworkDisconnects ==
  (op.name = "disconnectNetwork" /\ op.status = "returned") => ~connected

\* the step is a run of the teardown block
TeardownRun == DisconnectNetwork \/ CtorFinally
Disconnected(c) == <<"disconnect", 0>> \in Range(c)
PosOf(c, e) == CHOOSE j \in 1..Len(c) : c[j] = e
HandledBeforeDisconnect(c, n) ==
  /\ <<"nmt", n>> \in Range(c)
  /\ <<"guard", n>> \in Range(c)
  /\ PosOf(c, <<"nmt", n>>) < PosOf(c, <<"disconnect", 0>>)
  /\ PosOf(c, <<"guard", n>>) < PosOf(c, <<"disconnect", 0>>)

\* C11: a teardown that disconnects the transport has, before the disconnect,
\* issued the NMT PRE-OPERATIONAL command and the node-guarding stop for every
\* registered node
TeardownHandlesEveryNode ==
  [][(TeardownRun /\ Disconnected(calls'))
        => \A n \in Range(nodes) : HandledBeforeDisconnect(calls', n)]_vars

\* C12: when the NMT write of a registered node fails during close of an open
\* session, the other registered nodes still get their NMT command and the
\* transport is still disconnected
TeardownIsTotal ==
  [][(DisconnectNetwork /\ connected /\ op'.status = "raised" /\ op'.err = "nmt")
        => /\ ~connected'
           /\ \A n \in Range(nodes) : <<"nmt", n>> \in Range(calls')]_vars

\* C13: an error of a teardown step never reaches the caller of
\* disconnectNetwork or of the constructor
TeardownErrorsNotRaised ==
  (op.name \in {"disconnectNetwork", "__init__"} /\ op.status = "raised")
     => op.err \notin TeardownSteps

\* the session was closed by a call of disconnectNetwork
ClosedSession ==
  /\ op.name = "disconnectNetwork"
  /\ op.status = "returned"
  /\ Disconnected(calls)
  /\ ~connected

\* C14: disconnectNetwork on a session it has already closed returns without
\* error, makes no transport call and leaves the session as it was
TeardownIdempotent ==
  [][(ClosedSession /\ DisconnectNetwork)
        => (op'.status = "returned" /\ calls' = <<>> /\ ~connected')]_vars

StubNames == {"getOperationStatus", "getNMTStatus", "getVelocity", "getEncoder",
              "setTargetVelocity"}
Registered(id) == IsInt(id) /\ id.val \in Range(nodes)

\* C15: an accessor called with a node id that is not in the registry fails
\* with an unknown-node error and makes no transport read or write
AccessorRejectsUnknownNode ==
  (op.name \in StubNames /\ op.status # "running" /\ ~Registered(op.ids[1]))
     => (op.status = "raised" /\ op.err = "UnknownNode" /\ calls = <<>>)

\* C20: when connect, check, scan and validation succeed, the constructor
\* returns with the transport connected, and the only transport calls it has
\* made are connect, check and search (no node commanded, no disconnect)
SuccessfulOpenNotTornDown ==
  (op.name = "__init__" /\ op.status # "running" /\ ctorExc = "none") =>
     /\ op.status = "returned"
     /\ connected
     /\ calls = << <<"connect", 0>>, <<"check", 0>>, <<"search", 0>> >>

\* a constructor that returned after two expected nodes passed validation
ValidatedSessionOpen ==
  /\ op.name = "__init__"
  /\ op.status = "returned"
  /\ ctorExc = "none"
  /\ node_ids.given
  /\ Len(node_ids.items) = 2
  /\ connected

\* the step issues the command to the node at position idx (lines 156-157)
CommandStep == pc = "eo_loop" /\ pc' = "eo_wait"

\* C16: enableOperation does not command OPERATION ENABLED to a node that is in
\* FAULT: the target is not reachable from there without a fault reset
NoCommandFromFault ==
  [][CommandStep => devState[op.ids[idx].val] # "FAULT"]_vars

\* the step is an evaluation of the while condition (lines 158-160): the
\* call is waiting and neither the clock nor a device moves
PollStep == pc = "eo_wait" /\ now' = now /\ devState' = devState

\* C17: between two consecutive reads of the state of the node it waits for,
\* enableOperation waits one poll interval
PacedPolling ==
  [][(PollStep /\ idx \in pollIdx) => now >= lastCheck + PollInterval]_vars

EoFailed == op.name = "enableOperation" /\ op.status = "raised" /\ op.err # "NotAList"

\* C18: when enableOperation fails at position k of its list, every position
\* before k has been commanded and read as OPERATION ENABLED, and the call has
\* made no transport call but state writes and state reads (nothing is undone)
EarlierNodesStayEnabled ==
  EoFailed =>
     /\ \A j \in 1..(op.k - 1) : j \in cmdIdx /\ j \in okIdx
     /\ \A j \in 1..(op.k - 1) : <<"state_write", op.ids[j].val>> \in Range(calls)
     /\ \A j \in 1..Len(calls) : calls[j][1] \in {"state_write", "state_read"}

\* a call that failed on a non-integer second id after its first node was
\* commanded and confirmed
LateInvalidIdAfterEnabledNode ==
  /\ EoFailed
  /\ op.err = "NotInt"
  /\ op.k = 2
  /\ cmdIdx = {1}
  /\ okIdx = {1}

\* C19: each node has its own deadline, 15 s after the clock reading taken when
\* it is commanded, and is not timed out before that deadline has passed
FreshDeadlinePerNode ==
  /\ pc \in {"eo_wait", "eo_sleep"} => timeout = cmdAt + Deadline
  /\ TimeoutCase => (timeout = cmdAt + Deadline /\ op.at > cmdAt + Deadline)

\* the second node of a list timed out after the wait for the first node had
\* already taken 15 s
SecondNodeGotFullDeadline ==
  /\ TimeoutCase
  /\ op.k = 2
  /\ cmdAt >= ScanSettle + Deadline
  /\ op.at > cmdAt + Deadline
====
